---- MODULE Spec2Model ----
(***************************************************************************)
(* Model of the Soundvision report parser (src/src/extract.py).            *)
(*                                                                         *)
(* Text is modelled as a sequence of lines.  A line is a record            *)
(*   [kind, val]  with val a sequence of tokens, a token being a sequence  *)
(* of one-character strings:                                               *)
(*   "group"    "<n>. Group: <val[1]>"       val[1] = the (.+) capture     *)
(*   "source"   "<n>. Source: <val[1]>"      val[1] = the (.+) capture     *)
(*   "position" "Position (X; Y; Z, m): <val[1]>; <val[2]>; <val[3]>"      *)
(*   "site"     "Site: <val[1]> °"                                         *)
(*   "azimuth"  "Azimuth: <val[1]> °"                                      *)
(*   "row"      "#<val[1]> <val[2]> ... <val[n]>"  whitespace-separated    *)
(*   "angles"   a line containing "Angles (°)"                             *)
(*   "panflex"  a line containing "Panflex"                                *)
(* The ten remaining physical fields of parse_physical_config are          *)
(* extracted exactly like "Site (°)" and are not duplicated here.          *)
(***************************************************************************)
EXTENDS Integers, Sequences, FiniteSets, TLC

VARIABLES
    text,           \* parse_document: the document
    pc,             \* parse_document: "init" | "scanning" | "done" | "raised"
    source_blocks,  \* parse_document: result of split_source_blocks
    i,              \* parse_document: number of blocks the loop has taken
    groups,         \* parse_document: insertion-ordered dict, as <<[name, records]>>
    group,          \* parse_document: loop local, group of the block just taken
    fp,             \* parse_document: loop local, fingerprint of the block just taken
    raw_name,       \* canonicaliser run: the input name
    canonical,      \* canonicaliser run: get_canonical_name(raw_name)
    mirror,         \* canonicaliser run: is_mirror(raw_name)
    block_in,       \* enclosure-table run: the input block
    table,          \* enclosure-table run: result of parse_enclosure_table
    phys_a,         \* fingerprint run: first physical mapping
    phys_b,         \* fingerprint run: second physical mapping
    encs_a,         \* fingerprint run: first enclosure list
    encs_b,         \* fingerprint run: second enclosure list
    fp_a,           \* fingerprint run: source_fingerprint(phys_a, encs_a)
    fp_b,           \* fingerprint run: source_fingerprint(phys_b, encs_b)
    stage           \* which pure-function run has acted: "in" | "out"

vars == <<text, pc, source_blocks, i, groups, group, fp, raw_name, canonical,
          mirror, block_in, table, phys_a, phys_b, encs_a, encs_b, fp_a, fp_b,
          stage>>

docVars  == <<text, pc, source_blocks, i, groups, group, fp>>
nameVars == <<raw_name, canonical, mirror>>
encVars  == <<block_in, table>>
fpVars   == <<phys_a, phys_b, encs_a, encs_b, fp_a, fp_b>>

(***************************************************************************)
(* Bounds                                                                  *)
(***************************************************************************)
MaxLines == 5       \* lines of a document
MaxNameLen == 5     \* characters of a raw source name
MaxRowToks == 6     \* tokens after "#<n>" on an enclosure row line
MaxTokLen == 3      \* characters of a numeric token
MaxEncs == 2        \* rows of an enclosure list

(***************************************************************************)
(* Characters and strings                                                  *)
(***************************************************************************)
Digits == {"0", "1", "2", "3", "4", "5", "6", "7", "8", "9"}
Letters == {"A", "B", "C", "K", "L", "R", "S", "T", "U", "a", "k", "l", "n", "o", "w"}

IsSpace(c) == c = " "
IsWord(c) == c \in Digits \cup Letters \cup {"_"}
IsNumChar(c) == c \in Digits \cup {"-", "."}
IsSlashChar(c) == c \in Digits \cup {"/"}

AllChars(s, P(_)) == \A k \in 1..Len(s) : P(s[k])

\* str.upper(), character by character
UpperChar(c) ==
    CASE c = "a" -> "A" [] c = "b" -> "B" [] c = "c" -> "C" [] c = "d" -> "D"
      [] c = "e" -> "E" [] c = "f" -> "F" [] c = "g" -> "G" [] c = "h" -> "H"
      [] c = "i" -> "I" [] c = "j" -> "J" [] c = "k" -> "K" [] c = "l" -> "L"
      [] c = "m" -> "M" [] c = "n" -> "N" [] c = "o" -> "O" [] c = "p" -> "P"
      [] c = "q" -> "Q" [] c = "r" -> "R" [] c = "s" -> "S" [] c = "t" -> "T"
      [] c = "u" -> "U" [] c = "v" -> "V" [] c = "w" -> "W" [] c = "x" -> "X"
      [] c = "y" -> "Y" [] c = "z" -> "Z" [] OTHER -> c
Upper(s) == [k \in 1..Len(s) |-> UpperChar(s[k])]

RECURSIVE LStrip(_)
LStrip(s) == IF s # <<>> /\ IsSpace(s[1]) THEN LStrip(Tail(s)) ELSE s

RECURSIVE RStrip(_)
RStrip(s) == IF s # <<>> /\ IsSpace(s[Len(s)])
             THEN RStrip(SubSeq(s, 1, Len(s) - 1)) ELSE s

\* str.strip()
Strip(s) == LStrip(RStrip(s))

IsPrefix(p, s) == Len(p) <= Len(s) /\ SubSeq(s, 1, Len(p)) = p

SeqsUpTo(S, n) == UNION {[1..k -> S] : k \in 0..n}

(***************************************************************************)
(* get_canonical_name and is_mirror                                        *)
(***************************************************************************)
RECURSIVE TrailCount(_, _)
\* number of trailing characters of s lying in the set cls
TrailCount(s, cls) ==
    IF s # <<>> /\ s[Len(s)] \in cls
    THEN 1 + TrailCount(SubSeq(s, 1, Len(s) - 1), cls) ELSE 0

DropLast(s, n) == SubSeq(s, 1, Len(s) - n)
TakeLast(s, n) == SubSeq(s, Len(s) - n + 1, Len(s))

\* the match of  \s+[LR]\s*(\d*)$  in s: [found, start (last index before
\* the match), digits (group 1)]
CanonMatch(s) ==
    LET d  == TrailCount(s, Digits)
        r1 == DropLast(s, d)
        r2 == DropLast(r1, TrailCount(r1, {" "}))
        r3 == DropLast(r2, 1)
        w  == TrailCount(r3, {" "})
    IN  IF r2 # <<>> /\ r2[Len(r2)] \in {"L", "R"} /\ w >= 1
        THEN [found |-> TRUE, pre |-> DropLast(r3, w), digits |-> TakeLast(s, d)]
        ELSE [found |-> FALSE, pre |-> s, digits |-> <<>>]

get_canonical_name(source_name) ==
    LET m == CanonMatch(source_name)
    IN  IF m.found
        THEN Strip(m.pre \o (IF m.digits # <<>> THEN <<" ">> \o m.digits ELSE <<>>))
        ELSE Strip(source_name)

\* re.search(r'\s+R(\s+\d+)?$', name)
is_mirror(name) ==
    LET bare == DropLast(name, 1)
        d    == TrailCount(name, Digits)
        r1   == DropLast(name, d)
        w    == TrailCount(r1, {" "})
        r2   == DropLast(r1, w)
        r3   == DropLast(r2, 1)
    IN  \/ /\ name # <<>> /\ name[Len(name)] = "R"
           /\ TrailCount(bare, {" "}) >= 1
        \/ /\ d >= 1 /\ w >= 1
           /\ r2 # <<>> /\ r2[Len(r2)] = "R"
           /\ TrailCount(r3, {" "}) >= 1

(***************************************************************************)
(* float() and str() on the tokens the patterns let through                *)
(***************************************************************************)
CountOf(s, cls) == Cardinality({k \in 1..Len(s) : s[k] \in cls})

Unsigned(t) == IF t # <<>> /\ t[1] = "-" THEN Tail(t) ELSE t

\* float(t) does not raise ValueError, for t matching [\-\d.]+
FloatOK(t) ==
    LET u == Unsigned(t)
    IN  /\ \A k \in 1..Len(u) : u[k] \in Digits \cup {"."}
        /\ CountOf(u, {"."}) <= 1
        /\ CountOf(u, Digits) >= 1

RECURSIVE DropLeadZeros(_)
DropLeadZeros(s) == IF Len(s) > 1 /\ s[1] = "0" THEN DropLeadZeros(Tail(s)) ELSE s

RECURSIVE DropTrailZeros(_)
DropTrailZeros(s) ==
    IF Len(s) > 1 /\ s[Len(s)] = "0" THEN DropTrailZeros(DropLast(s, 1)) ELSE s

DotAt(u) == IF \E k \in 1..Len(u) : u[k] = "."
            THEN CHOOSE k \in 1..Len(u) : u[k] = "." ELSE Len(u) + 1

\* str(abs(float(t))) for FloatOK(t): shortest repr, always with a fraction
StrAbsFloat(t) ==
    LET u    == Unsigned(t)
        p    == DotAt(u)
        whole == SubSeq(u, 1, p - 1)
        frac == SubSeq(u, p + 1, Len(u))
    IN  DropLeadZeros(IF whole = <<>> THEN <<"0">> ELSE whole) \o <<".">>
        \o DropTrailZeros(IF frac = <<>> THEN <<"0">> ELSE frac)

\* repr of float(t) for FloatOK(t): the value a row stores
Float(t) == (IF t[1] = "-" THEN <<"-">> ELSE <<>>) \o StrAbsFloat(t)

RECURSIVE ParseInt(_)
\* int(t) for t matching \d+
ParseInt(t) ==
          IF t = <<>> THEN 0
          ELSE 10 * ParseInt(DropLast(t, 1))
               + (CHOOSE n \in 0..9 : <<"0","1","2","3","4","5","6","7","8","9">>[n + 1] = t[Len(t)])

(***************************************************************************)
(* Token classes of the row patterns                                       *)
(***************************************************************************)
DigitTok(t) == t # <<>> /\ \A k \in 1..Len(t) : t[k] \in Digits       \* \d+
WordTok(t)  == t # <<>> /\ \A k \in 1..Len(t) : IsWord(t[k])          \* \w+
NumTok(t)   == t # <<>> /\ \A k \in 1..Len(t) : IsNumChar(t[k])       \* [\-\d.]+
SlashTok(t) == t # <<>> /\ \A k \in 1..Len(t) : IsSlashChar(t[k])     \* [\d/]+

RECURSIVE Join(_)
\* the tokens of a type as they stand in the line, one blank between them
Join(ts) == IF ts = <<>> THEN <<>>
            ELSE IF Len(ts) = 1 THEN ts[1]
            ELSE ts[1] \o <<" ">> \o Join(Tail(ts))

(***************************************************************************)
(* parse_physical_config.  The degree sign of the labels is written "deg". *)
(***************************************************************************)
\* the field table: key, the kind of line carrying its label, and which
\* token of that line is its capture group
FieldTable ==
    << [key |-> "Position X (m)", kind |-> "position", col |-> 1],
       [key |-> "Position Y (m)", kind |-> "position", col |-> 2],
       [key |-> "Position Z (m)", kind |-> "position", col |-> 3],
       [key |-> "Site (deg)",     kind |-> "site",     col |-> 1],
       [key |-> "Azimuth (deg)",  kind |-> "azimuth",  col |-> 1] >>

\* re.search(pattern, block): the lines of block on which field f matches
FieldHits(f, block) ==
    {k \in 1..Len(block) :
        /\ block[k].kind = f.kind
        /\ Len(block[k].val) >= f.col
        /\ \A c \in 1..f.col : NumTok(block[k].val[c])}

Min(S) == CHOOSE m \in S : \A n \in S : m <= n

parse_physical_config(block) ==
    LET found == {j \in 1..Len(FieldTable) : FieldHits(FieldTable[j], block) # {}}
        keys  == {FieldTable[j].key : j \in found}
        entry(key) == LET j == CHOOSE j \in found : FieldTable[j].key = key
                          f == FieldTable[j]
                      IN  Strip(block[Min(FieldHits(f, block))].val[f.col])
    IN  [key \in keys |-> entry(key)]

(***************************************************************************)
(* parse_enclosure_table                                                   *)
(***************************************************************************)
Cols7 == <<"Enc #", "Type", "Angle (deg)", "Site (deg)", "Top Z (m)", "Bottom Z (m)", "Panflex">>
Cols6 == <<"Enc #", "Type", "Angle (deg)", "Site (deg)", "Top Z (m)", "Bottom Z (m)">>
Cols5 == <<"Enc #", "Type", "Site (deg)", "Top Z (m)", "Bottom Z (m)">>

\* #(\d+)\s+([\w\s]+?)\s+ then 4 numeric tokens, then ([\d/]+)\s*$
RowMatch7(line) ==
    LET v == line.val  n == Len(v)
    IN  /\ line.kind = "row" /\ n >= 7 /\ DigitTok(v[1])
        /\ \A k \in 2..(n - 5) : WordTok(v[k])
        /\ \A k \in (n - 4)..(n - 1) : NumTok(v[k])
        /\ SlashTok(v[n])

\* #(\d+)\s+([\w\s]+?)\s+ then 4 numeric tokens, then \s*$
RowMatch6(line) ==
    LET v == line.val  n == Len(v)
    IN  /\ line.kind = "row" /\ n >= 6 /\ DigitTok(v[1])
        /\ \A k \in 2..(n - 4) : WordTok(v[k])
        /\ \A k \in (n - 3)..n : NumTok(v[k])

\* #(\d+)\s+([\w]+(?:_C)?)\s+ then 3 numeric tokens, then \s*$
RowMatch5(line) ==
    LET v == line.val  n == Len(v)
    IN  /\ line.kind = "row" /\ n = 5 /\ DigitTok(v[1])
        /\ WordTok(v[2])
        /\ \A k \in 3..5 : NumTok(v[k])

\* the tokens a row hands to float(), in group order
Floated7(line) == SubSeq(line.val, Len(line.val) - 4, Len(line.val) - 1)
Floated6(line) == SubSeq(line.val, Len(line.val) - 3, Len(line.val))
Floated5(line) == SubSeq(line.val, 3, 5)

Row7(line) ==
    LET v == line.val  n == Len(v)
    IN  [c \in {Cols7[k] : k \in 1..7} |->
            CASE c = "Enc #"        -> ParseInt(v[1])
              [] c = "Type"         -> Strip(Join(SubSeq(v, 2, n - 5)))
              [] c = "Angle (deg)"  -> Float(v[n - 4])
              [] c = "Site (deg)"   -> Float(v[n - 3])
              [] c = "Top Z (m)"    -> Float(v[n - 2])
              [] c = "Bottom Z (m)" -> Float(v[n - 1])
              [] c = "Panflex"      -> v[n]]

Row6(line) ==
    LET v == line.val  n == Len(v)
    IN  [c \in {Cols6[k] : k \in 1..6} |->
            CASE c = "Enc #"        -> ParseInt(v[1])
              [] c = "Type"         -> Strip(Join(SubSeq(v, 2, n - 4)))
              [] c = "Angle (deg)"  -> Float(v[n - 3])
              [] c = "Site (deg)"   -> Float(v[n - 2])
              [] c = "Top Z (m)"    -> Float(v[n - 1])
              [] c = "Bottom Z (m)" -> Float(v[n])]

Row5(line) ==
    LET v == line.val
    IN  [c \in {Cols5[k] : k \in 1..5} |->
            CASE c = "Enc #"        -> ParseInt(v[1])
              [] c = "Type"         -> Strip(v[2])
              [] c = "Site (deg)"   -> Float(v[3])
              [] c = "Top Z (m)"    -> Float(v[4])
              [] c = "Bottom Z (m)" -> Float(v[5])]

has_panflex(block) == \E k \in 1..Len(block) : block[k].kind = "panflex"
has_angles(block)  == \E k \in 1..Len(block) : block[k].kind = "angles"

\* Variant with the test for "Panflex" left out of the first branch
VariantAnglesOnly(block) == IF has_angles(block) THEN 7 ELSE 5

\* which of the three branches parse_enclosure_table takes
Variant(block) ==
    IF has_angles(block) /\ has_panflex(block) THEN 7
    ELSE IF has_angles(block) /\ ~has_panflex(block) THEN 6
    ELSE 5

RowMatch(n, line) == CASE n = 7 -> RowMatch7(line) [] n = 6 -> RowMatch6(line)
                       [] OTHER -> RowMatch5(line)
Floated(n, line) == CASE n = 7 -> Floated7(line) [] n = 6 -> Floated6(line)
                       [] OTHER -> Floated5(line)
RowOf(n, line) == CASE n = 7 -> Row7(line) [] n = 6 -> Row6(line)
                       [] OTHER -> Row5(line)
ColsOf(n) == CASE n = 7 -> Cols7 [] n = 6 -> Cols6 [] OTHER -> Cols5

\* [raised, rows, cols]: raised when float() raises ValueError on a matched
\* row, otherwise the rows in document order and the column list
parse_enclosure_table(block) ==
    LET n       == Variant(block)
        matched == SelectSeq(block, LAMBDA line : RowMatch(n, line))
        bad     == \E k \in 1..Len(matched) :
                      \E c \in 1..Len(Floated(n, matched[k])) :
                          ~FloatOK(Floated(n, matched[k])[c])
    IN  IF bad THEN [raised |-> TRUE, rows |-> <<>>, cols |-> <<>>]
        ELSE [raised |-> FALSE,
              rows   |-> [k \in 1..Len(matched) |-> RowOf(n, matched[k])],
              cols   |-> ColsOf(n)]

(***************************************************************************)
(* split_source_blocks and get_group_for_source                            *)
(***************************************************************************)
Max(S) == CHOOSE m \in S : \A n \in S : m >= n

\* the j-th smallest element of a set of numbers
Nth(S, j) == CHOOSE m \in S : Cardinality({n \in S : n < m}) = j - 1

\* the lines matching ^\d+\.\s+Source:\s+(.+)$
SourceMatches(t) == {k \in 1..Len(t) : t[k].kind = "source" /\ t[k].val[1] # <<>>}

\* the end of the span that starts at match number j (the last line of it)
BlockEnd(t, j) ==
    LET matches == SourceMatches(t)
    IN  IF j + 1 <= Cardinality(matches) THEN Nth(matches, j + 1) - 1 ELSE Len(t)

split_source_blocks(t) ==
    LET matches == SourceMatches(t)
    IN  [j \in 1..Cardinality(matches) |->
            [name  |-> Strip(t[Nth(matches, j)].val[1]),
             block |-> SubSeq(t, Nth(matches, j), BlockEnd(t, j))]]

Unknown == <<"U", "n", "k", "n", "o", "w", "n">>
ALL == <<"A", "L", "L">>

\* the lines on which \d+\.\s+Source:\s+<escaped source_name> matches
NameHits(t, source_name) ==
    {k \in 1..Len(t) : t[k].kind = "source"
                       /\ IsPrefix(source_name, LStrip(t[k].val[1]))}

RECURSIVE ScanBack(_, _)
\* for g in reversed(groups_before): the first name that is not ALL
ScanBack(t, groups_before) ==
    IF groups_before = {} THEN Unknown
    ELSE LET g    == Max(groups_before)
             name == Strip(t[g].val[1])
         IN  IF Upper(name) # ALL THEN name
             ELSE ScanBack(t, groups_before \ {g})

get_group_for_source(t, source_name) ==
    LET hits == NameHits(t, source_name)
    IN  IF hits = {} THEN Unknown
        ELSE ScanBack(t, {k \in 1..(Min(hits) - 1) : t[k].kind = "group"})

(***************************************************************************)
(* source_fingerprint                                                      *)
(***************************************************************************)
\* the characters of the model in code point order
CodeOrder == <<" ", "-", ".", "/", "0", "1", "2", "3", "4", "5", "6", "7", "8", "9",
               "A", "B", "C", "K", "L", "R", "S", "T", "U", "_",
               "a", "k", "l", "n", "o", "w">>
Ord(c) == CHOOSE n \in 1..Len(CodeOrder) : CodeOrder[n] = c

RECURSIVE LexLess(_, _)
\* a < b as Python compares two str
LexLess(a, b) ==
    IF a = <<>> THEN b # <<>>
    ELSE IF b = <<>> THEN FALSE
    ELSE IF a[1] # b[1] THEN Ord(a[1]) < Ord(b[1])
    ELSE LexLess(Tail(a), Tail(b))

RECURSIVE SortStrs(_)
\* sorted(S) for a set of str
SortStrs(S) ==
    IF S = {} THEN <<>>
    ELSE LET least == CHOOSE a \in S : \A b \in S \ {a} : LexLess(a, b)
         IN  <<least>> \o SortStrs(S \ {least})

\* the keys of the field table as sorted() orders them
SortedKeys == <<"Azimuth (deg)", "Position X (m)", "Position Y (m)",
                "Position Z (m)", "Site (deg)">>

\* the keys whose value is replaced by str(abs(float(v)))
NormalisedKeys == {"Position X (m)", "Azimuth (deg)"}

\* Normalise with abs() left out: str(float(v))
NormaliseKeepSign(k, v) == IF k \in NormalisedKeys /\ FloatOK(v) THEN Float(v) ELSE v

Normalise(k, v) == IF k \in NormalisedKeys /\ FloatOK(v) THEN StrAbsFloat(v) ELSE v

\* EncTuple with the counts left out: tuple(sorted(set(e["Type"] ...)))
EncTupleTypesOnly(enclosures) ==
    LET sorted == SortStrs({enclosures[k]["Type"] : k \in 1..Len(enclosures)})
    IN  [k \in 1..Len(sorted) |-> <<sorted[k], 1>>]

\* tuple(sorted(Counter(e["Type"] for e in enclosures).items()))
EncTuple(enclosures) ==
    LET types  == {enclosures[k]["Type"] : k \in 1..Len(enclosures)}
        sorted == SortStrs(types)
        count(ty) == Cardinality({k \in 1..Len(enclosures) : enclosures[k]["Type"] = ty})
    IN  [k \in 1..Len(sorted) |-> <<sorted[k], count(sorted[k])>>]

source_fingerprint(physical, enclosures) ==
    LET normalised == [k \in DOMAIN physical |-> Normalise(k, physical[k])]
        keys       == SelectSeq(SortedKeys, LAMBDA k : k \in DOMAIN physical)
        phys_tuple == [n \in 1..Len(keys) |-> <<keys[n], normalised[keys[n]]>>]
    IN  <<phys_tuple, EncTuple(enclosures)>>

(***************************************************************************)
(* parse_document                                                          *)
(***************************************************************************)
RECURSIVE RecordsOfAnyGroup(_, _)
\* RecordsOf looking into every group instead of groups[g]
RecordsOfAnyGroup(gs, g) ==
    IF gs = <<>> THEN <<>> ELSE gs[1].records \o RecordsOfAnyGroup(Tail(gs), g)

\* groups.get(g, [])
RecordsOf(gs, g) ==
    IF \E k \in 1..Len(gs) : gs[k].name = g
    THEN gs[CHOOSE k \in 1..Len(gs) : gs[k].name = g].records
    ELSE <<>>

\* IsDuplicate with the test dropped: every block is kept
IsDuplicateNever(f, records) == FALSE

\* IsDuplicate looking only at the record appended last
IsDuplicateOfLast(f, records) ==
    /\ records # <<>>
    /\ source_fingerprint(records[Len(records)].physical,
                          records[Len(records)].enclosures) = f

\* any(source_fingerprint(s["physical"], s["enclosures"]) == f for s in records)
IsDuplicate(f, records) ==
    \E k \in 1..Len(records) :
        source_fingerprint(records[k].physical, records[k].enclosures) = f

\* Append2 putting a new group first instead of last
Append2Front(gs, g, entry) ==
    IF \E k \in 1..Len(gs) : gs[k].name = g
    THEN [k \in 1..Len(gs) |->
            IF gs[k].name = g
            THEN [name |-> g, records |-> Append(gs[k].records, entry)]
            ELSE gs[k]]
    ELSE <<[name |-> g, records |-> <<entry>>]>> \o gs

\* if group not in groups: groups[group] = []; groups[group].append(entry)
Append2(gs, g, entry) ==
    IF \E k \in 1..Len(gs) : gs[k].name = g
    THEN [k \in 1..Len(gs) |->
            IF gs[k].name = g
            THEN [name |-> g, records |-> Append(gs[k].records, entry)]
            ELSE gs[k]]
    ELSE Append(gs, [name |-> g, records |-> <<entry>>])

Split ==
    /\ pc = "init"
    /\ source_blocks' = split_source_blocks(text)
    /\ groups' = <<>>
    /\ pc' = "scanning"
    /\ UNCHANGED <<text, i, group, fp, nameVars, encVars, fpVars, stage>>

\* one pass of the loop body: float() raises inside parse_enclosure_table, or
\* the block is skipped as a duplicate ("continue"), or a record is appended.
\* (\E x \in {e} names the value of a local once.)
Step ==
    /\ pc = "scanning" /\ i < Len(source_blocks)
    /\ i' = i + 1
    /\ \E b \in {source_blocks[i + 1]} :
       \E g        \in {get_group_for_source(text, b.name)},
          physical \in {parse_physical_config(b.block)},
          tab      \in {parse_enclosure_table(b.block)} :
       \E f   \in {source_fingerprint(physical, tab.rows)} :
       \E dup \in {IsDuplicate(f, RecordsOf(groups, g))} :
           /\ group' = g
           /\ \/ /\ tab.raised
                 /\ pc' = "raised"
                 /\ UNCHANGED <<groups, fp>>
              \/ /\ ~tab.raised
                 /\ dup
                 /\ fp' = f
                 /\ UNCHANGED <<groups, pc>>
              \/ /\ ~tab.raised
                 /\ ~dup
                 /\ fp' = f
                 /\ groups' = Append2(groups, g,
                                      [name       |-> get_canonical_name(b.name),
                                       physical   |-> physical,
                                       enclosures |-> tab.rows,
                                       columns    |-> tab.cols])
                 /\ UNCHANGED pc
    /\ UNCHANGED <<text, source_blocks, nameVars, encVars, fpVars, stage>>

Return ==
    /\ pc = "scanning" /\ i = Len(source_blocks)
    /\ pc' = "done"
    /\ UNCHANGED <<text, source_blocks, i, groups, group, fp, nameVars, encVars, fpVars, stage>>

(***************************************************************************)
(* The documents parse_document is run on                                  *)
(***************************************************************************)
Tok1 == <<"1">>
GroupLine(v)  == [kind |-> "group",  val |-> <<v>>]
SourceLine(v) == [kind |-> "source", val |-> <<v>>]

HeaderLines ==
    { GroupLine(<<"A">>), GroupLine(<<"B">>), GroupLine(<<"a", "l", "l", " ">>),
      SourceLine(<<"K", " ", "L">>), SourceLine(<<"K", " ", "L", " ", "2">>) }

\* a Position line, the same line mirrored, and an enclosure row whose first
\* numeric token is "-"
BodyLines ==
    { [kind |-> "position", val |-> <<Tok1, Tok1, Tok1>>],
      [kind |-> "position", val |-> <<<<"-", "1">>, Tok1, Tok1>>],
      [kind |-> "row", val |-> <<Tok1, <<"S", "B">>, <<"-">>, Tok1, Tok1>>] }

\* every header line is followed by at most one line of its section
Documents ==
    {t \in SeqsUpTo(HeaderLines \cup BodyLines, MaxLines) :
        \A k \in 1..Len(t) : t[k] \in BodyLines => (k > 1 /\ t[k - 1] \in HeaderLines)}

NoNameRun == /\ raw_name = <<>> /\ canonical = <<>> /\ mirror = FALSE
NoEncRun  == /\ block_in = <<>> /\ table = <<>>
NoFpRun   == /\ phys_a = <<>> /\ phys_b = <<>> /\ encs_a = <<>> /\ encs_b = <<>>
             /\ fp_a = <<>> /\ fp_b = <<>>
NoDocRun  == /\ text = <<>> /\ pc = "init" /\ source_blocks = <<>> /\ i = 0
             /\ groups = <<>> /\ group = <<>> /\ fp = <<>>

Init ==
    /\ text \in Documents
    /\ pc = "init" /\ source_blocks = <<>> /\ i = 0
    /\ groups = <<>> /\ group = <<>> /\ fp = <<>>
    /\ NoNameRun /\ NoEncRun /\ NoFpRun /\ stage = "in"

Next == Split \/ Step \/ Return

Spec == Init /\ [][Next]_vars

(***************************************************************************)
(* get_canonical_name and is_mirror applied to one raw name                *)
(***************************************************************************)
NameChars == {"K", " ", "L", "R", "2"}

\* the names parse_document passes on: stripped, not empty
Names == {n \in SeqsUpTo(NameChars, MaxNameLen) : n # <<>> /\ Strip(n) = n}

InitName ==
    /\ raw_name \in Names /\ canonical = <<>> /\ mirror = FALSE
    /\ NoDocRun /\ NoEncRun /\ NoFpRun /\ stage = "in"

ApplyName ==
    /\ stage = "in"
    /\ canonical' = get_canonical_name(raw_name)
    /\ mirror' = is_mirror(raw_name)
    /\ stage' = "out"
    /\ UNCHANGED <<raw_name, docVars, encVars, fpVars>>

NextName == ApplyName

SpecName == InitName /\ [][NextName]_vars

(***************************************************************************)
(* parse_enclosure_table applied to one block                              *)
(***************************************************************************)
RowToks == { <<"S", "B">>, Tok1, <<"-">>, <<"1", "/", "2">> }

MarkerLines(pf, an) ==
    (IF an THEN <<[kind |-> "angles", val |-> <<>>]>> ELSE <<>>)
    \o (IF pf THEN <<[kind |-> "panflex", val |-> <<>>]>> ELSE <<>>)

\* a block: its marker lines, then one "#1 ..." line
EncBlocks ==
    { MarkerLines(pf, an) \o <<[kind |-> "row", val |-> <<Tok1>> \o toks]>> :
        pf \in BOOLEAN, an \in BOOLEAN, toks \in SeqsUpTo(RowToks, MaxRowToks) }

InitEnc ==
    /\ block_in \in EncBlocks /\ table = <<>>
    /\ NoDocRun /\ NoNameRun /\ NoFpRun /\ stage = "in"

ApplyEnc ==
    /\ stage = "in"
    /\ table' = parse_enclosure_table(block_in)
    /\ stage' = "out"
    /\ UNCHANGED <<block_in, docVars, nameVars, fpVars>>

NextEnc == ApplyEnc

SpecEnc == InitEnc /\ [][NextEnc]_vars

(***************************************************************************)
(* source_fingerprint applied to two records                               *)
(***************************************************************************)
NumChars == {"-", ".", "0", "1"}

\* the values [\-\d.]+ lets through, up to MaxTokLen characters
NumToks == {t \in SeqsUpTo(NumChars, MaxTokLen) : t # <<>>}

\* the text of the negated number
Negate(t) == IF t[1] = "-" THEN Tail(t) ELSE <<"-">> \o t

FlipIf(flag, t) == IF flag THEN Negate(t) ELSE t

FpEncs == { <<>>,
            <<Row5([kind |-> "row", val |-> <<Tok1, <<"S", "B">>, Tok1, Tok1, Tok1>>])>> }

InitFp ==
    /\ \E x \in NumToks, az \in {<<"3", "0">>, <<"-", "3", "0">>, <<"-">>},
          y \in {Tok1, <<"-", "0">>}, flip \in SUBSET {1, 2, 3, 4} :
          /\ phys_a = [k \in {"Position X (m)", "Azimuth (deg)", "Position Y (m)", "Site (deg)"} |->
                          CASE k = "Position X (m)" -> x
                            [] k = "Azimuth (deg)"  -> az
                            [] k = "Position Y (m)" -> y
                            [] k = "Site (deg)"     -> y]
          /\ phys_b = [k \in {"Position X (m)", "Azimuth (deg)", "Position Y (m)", "Site (deg)"} |->
                          CASE k = "Position X (m)" -> FlipIf(1 \in flip, x)
                            [] k = "Azimuth (deg)"  -> FlipIf(2 \in flip, az)
                            [] k = "Position Y (m)" -> FlipIf(3 \in flip, y)
                            [] k = "Site (deg)"     -> FlipIf(4 \in flip, y)]
    /\ encs_a \in FpEncs /\ encs_b = encs_a
    /\ fp_a = <<>> /\ fp_b = <<>>
    /\ NoDocRun /\ NoNameRun /\ NoEncRun /\ stage = "in"

ApplyFp ==
    /\ stage = "in"
    /\ fp_a' = source_fingerprint(phys_a, encs_a)
    /\ fp_b' = source_fingerprint(phys_b, encs_b)
    /\ stage' = "out"
    /\ UNCHANGED <<phys_a, phys_b, encs_a, encs_b, docVars, nameVars, encVars>>

NextFp == ApplyFp

SpecFp == InitFp /\ [][NextFp]_vars

(***************************************************************************)
(* source_fingerprint applied to two enclosure lists                       *)
(***************************************************************************)
\* rows as parse_enclosure_table returns them: two types, and for each a row,
\* the same row with another index, and the same row with another geometry
FpRows ==
    { Row5([kind |-> "row", val |-> <<idx, ty, site, Tok1, Tok1>>]) :
        ty \in {<<"S", "B">>, <<"K">>},
        idx \in {Tok1, <<"2">>},
        site \in {Tok1, <<"-", "1">>} }
    \ { Row5([kind |-> "row", val |-> <<<<"2">>, ty, <<"-", "1">>, Tok1, Tok1>>]) :
        ty \in {<<"S", "B">>, <<"K">>} }

FpEncLists == SeqsUpTo(FpRows, MaxEncs)

InitFpEnc ==
    /\ phys_a = [k \in {"Position X (m)"} |-> Tok1]
    /\ phys_b = phys_a
    /\ encs_a \in FpEncLists /\ encs_b \in FpEncLists
    /\ fp_a = <<>> /\ fp_b = <<>>
    /\ NoDocRun /\ NoNameRun /\ NoEncRun /\ stage = "in"

NextFpEnc == ApplyFp

SpecFpEnc == InitFpEnc /\ [][NextFpEnc]_vars

(***************************************************************************)
(* What the properties below say about a run of parse_document             *)
(***************************************************************************)
\* the line of the header of block j
HeaderLine(j) == Nth(SourceMatches(text), j)

IsAllHeader(k) == Upper(Strip(text[k].val[1])) = ALL

GroupHeadersBefore(h) == {k \in 1..(h - 1) : text[k].kind = "group"}

\* the name of the nearest group header strictly before line h that is not
\* ALL, Unknown when there is none
NearestRealGroup(h) ==
    LET real == {k \in GroupHeadersBefore(h) : ~IsAllHeader(k)}
    IN  IF real = {} THEN Unknown ELSE Strip(text[Max(real)].val[1])

\* the group the resolver gives each block, and the fingerprint of each block
ResolvedGroups ==
    [j \in 1..Len(source_blocks) |-> get_group_for_source(text, source_blocks[j].name)]
BlockFingerprints ==
    [j \in 1..Len(source_blocks) |->
        source_fingerprint(parse_physical_config(source_blocks[j].block),
                           parse_enclosure_table(source_blocks[j].block).rows)]

\* block j has the fingerprint of an earlier block of the same resolved
\* group (res: the resolved groups, fps: the fingerprints)
SameGroupDuplicate(res, fps, j) ==
    \E e \in 1..(j - 1) : res[e] = res[j] /\ fps[e] = fps[j]

\* the blocks that are to leave a record in group g
Survivors(res, fps, g) ==
    {j \in DOMAIN res : res[j] = g /\ ~SameGroupDuplicate(res, fps, j)}

\* the record block j is to leave
EntryOf(j) ==
    LET tab == parse_enclosure_table(source_blocks[j].block)
    IN  [name       |-> get_canonical_name(source_blocks[j].name),
         physical   |-> parse_physical_config(source_blocks[j].block),
         enclosures |-> tab.rows,
         columns    |-> tab.cols]

GroupNames == {groups[k].name : k \in 1..Len(groups)}

\* the records filed under g in the result
Filed(g) ==
    IF g \in GroupNames
    THEN groups[CHOOSE k \in 1..Len(groups) : groups[k].name = g].records
    ELSE <<>>

RECURSIVE SumLens(_)
SumLens(gs) == IF gs = <<>> THEN 0 ELSE Len(gs[1].records) + SumLens(Tail(gs))

TotalRecords == SumLens(groups)

\* the first line of the text that is a header of group g (0: there is none)
FirstOccurrence(g) ==
    LET occ == {k \in 1..Len(text) : text[k].kind = "group" /\ Strip(text[k].val[1]) = g}
    IN  IF occ = {} THEN 0 ELSE Min(occ)

(***************************************************************************)
(* C1.  The group a block is filed under is the name of the nearest group  *)
(* header strictly before that block's own header whose value is not ALL,  *)
(* Unknown if there is none -- also when raw names repeat or one is a      *)
(* prefix of another.                                                      *)
(***************************************************************************)
C1_GroupOfOwnHeader ==
    (pc # "init" /\ i >= 1) => group = NearestRealGroup(HeaderLine(i))

(***************************************************************************)
(* C2.  parse_document never raises, whatever the numeric tokens of the    *)
(* enclosure rows are.                                                     *)
(***************************************************************************)
C2_NeverRaises == pc # "raised"

(***************************************************************************)
(* C3.  After any prefix of the blocks, and so in the result, no two       *)
(* records of one group have equal fingerprints.                           *)
(***************************************************************************)
C3_NoEqualFingerprints ==
    \A k \in 1..Len(groups) :
        \A a, b \in 1..Len(groups[k].records) :
            a < b =>
                source_fingerprint(groups[k].records[a].physical,
                                   groups[k].records[a].enclosures)
                # source_fingerprint(groups[k].records[b].physical,
                                     groups[k].records[b].enclosures)

\* a block has been skipped and a group holds two records
C3_Witness ==
    /\ pc = "done"
    /\ TotalRecords < i
    /\ \E k \in 1..Len(groups) : Len(groups[k].records) >= 2

(***************************************************************************)
(* C4.  In the result every source header has left exactly one record,     *)
(* except a block whose fingerprint equals that of an earlier block of the *)
(* same resolved group, which has left none; a block with the fingerprint  *)
(* of a record of another group is kept; the number of records is the      *)
(* number of source headers minus the number of same-group duplicates.     *)
(***************************************************************************)
C4_OneRecordPerHeader ==
    pc = "done" =>
        \E res \in {ResolvedGroups}, fps \in {BlockFingerprints} :
        LET headers == {k \in 1..Len(text) : text[k].kind = "source"}
            dups    == {j \in DOMAIN res : SameGroupDuplicate(res, fps, j)}
        IN  /\ Len(source_blocks) = Cardinality(headers)
            /\ \A j \in DOMAIN res :
                  Len(Filed(res[j])) = Cardinality(Survivors(res, fps, res[j]))
            /\ GroupNames = {res[j] : j \in DOMAIN res}
            /\ TotalRecords = Cardinality(headers) - Cardinality(dups)

\* one block was dropped as a same-group duplicate, and two blocks of equal
\* fingerprint in different groups were both kept
C4_Witness ==
    /\ pc = "done"
    /\ \E res \in {ResolvedGroups}, fps \in {BlockFingerprints} :
          /\ \E j \in DOMAIN res : SameGroupDuplicate(res, fps, j)
          /\ \E a, b \in DOMAIN res :
                /\ a < b /\ fps[a] = fps[b] /\ res[a] # res[b]
                /\ ~SameGroupDuplicate(res, fps, a) /\ ~SameGroupDuplicate(res, fps, b)
                /\ Len(Filed(res[a])) >= 1 /\ Len(Filed(res[b])) >= 1

(***************************************************************************)
(* C5.  As claimed: in the result the groups come in the order in which    *)
(* their names first occur in the text, and the records of a group come in *)
(* the document order of their blocks.                                     *)
(***************************************************************************)
C5_RecordsInDocumentOrder ==
    \E res \in {ResolvedGroups}, fps \in {BlockFingerprints} :
        \A k \in 1..Len(groups) :
            LET surv == Survivors(res, fps, groups[k].name)
            IN  groups[k].records = [n \in 1..Cardinality(surv) |-> EntryOf(Nth(surv, n))]

C5_GroupsInTextOrder ==
    pc = "done" =>
        /\ \A a, b \in 1..Len(groups) :
              (a < b /\ FirstOccurrence(groups[a].name) > 0
                     /\ FirstOccurrence(groups[b].name) > 0)
              => FirstOccurrence(groups[a].name) < FirstOccurrence(groups[b].name)
        /\ C5_RecordsInDocumentOrder

(***************************************************************************)
(* C5, amended.  In the result the groups come in the document order of    *)
(* the first block that left a record in each of them, and the records of  *)
(* a group come in the document order of their blocks.                     *)
(***************************************************************************)
C5_GroupsInFirstRecordOrder ==
    pc = "done" =>
        /\ \E res \in {ResolvedGroups}, fps \in {BlockFingerprints} :
           \E first \in {[k \in 1..Len(groups) |-> Survivors(res, fps, groups[k].name)]} :
              /\ \A k \in 1..Len(groups) : first[k] # {}
              /\ \A a, b \in 1..Len(groups) : a < b => Min(first[a]) < Min(first[b])
        /\ C5_RecordsInDocumentOrder

\* two groups, one of them with two records
C5_Witness ==
    /\ pc = "done"
    /\ Len(groups) >= 2
    /\ \E k \in 1..Len(groups) : Len(groups[k].records) >= 2

(***************************************************************************)
(* C6.  The span of a source block ends at the next numbered header of any *)
(* kind, so no group header line lies inside a block.                      *)
(***************************************************************************)
C6_SpanEndsAtAnyHeader ==
    \A j \in 1..Len(source_blocks) :
        \A n \in 2..Len(source_blocks[j].block) :
            source_blocks[j].block[n].kind \notin {"group", "source"}

(***************************************************************************)
(* C7.  When the group headers before a source are, nearest first, one or  *)
(* more ALL headers and then a header named G, the source resolves to G;   *)
(* when all of them are ALL, or there is none, it resolves to Unknown.     *)
(***************************************************************************)
C7_SkipsAllSentinel ==
    (pc # "init" /\ i >= 1) =>
        LET before == GroupHeadersBefore(HeaderLine(i))
            real   == {k \in before : ~IsAllHeader(k)}
        IN  /\ (before # {} /\ IsAllHeader(Max(before)) /\ real # {})
                  => group = Strip(text[Max(real)].val[1])
            /\ real = {} => group = Unknown

(***************************************************************************)
(* C8.  Two records that differ only in the sign of Position X and/or of   *)
(* Azimuth, both numeric, and have the same enclosure-type counts, have    *)
(* equal fingerprints; negating any other numeric field makes the          *)
(* fingerprints differ.                                                    *)
(***************************************************************************)
SignFlipped == {"Position X (m)", "Azimuth (deg)"}

\* phys_b[k] is the number of phys_a[k], negated
NegatedAt(k) == FloatOK(phys_a[k]) /\ phys_b[k] = Negate(phys_a[k])

TypeCounts(encs) ==
    [ty \in {encs[k]["Type"] : k \in 1..Len(encs)} |->
        Cardinality({k \in 1..Len(encs) : encs[k]["Type"] = ty})]

C8_SignFlipSymmetric ==
    stage = "out" =>
        /\ ( /\ DOMAIN phys_a = DOMAIN phys_b
             /\ TypeCounts(encs_a) = TypeCounts(encs_b)
             /\ \A k \in DOMAIN phys_a :
                   IF k \in SignFlipped
                   THEN phys_b[k] = phys_a[k] \/ NegatedAt(k)
                   ELSE phys_b[k] = phys_a[k] )
           => fp_a = fp_b
        /\ (\E k \in (DOMAIN phys_a \cap DOMAIN phys_b) \ SignFlipped : NegatedAt(k))
           => fp_a # fp_b

\* Position X and Azimuth are both negated, nothing else differs, and the
\* fingerprints have been computed
C8_Witness ==
    /\ stage = "out"
    /\ DOMAIN phys_a = DOMAIN phys_b
    /\ \A k \in DOMAIN phys_a :
          IF k \in SignFlipped THEN NegatedAt(k) ELSE phys_b[k] = phys_a[k]
    /\ Len(encs_a) >= 1
    /\ fp_a = fp_b

(***************************************************************************)
(* C9.  parse_enclosure_table returns the 7-label column list for a block  *)
(* with both markers, the 6-label list for "Angles" without "Panflex",     *)
(* the 5-label list for any block without "Angles"; and every returned row *)
(* has exactly the keys of the returned column list.                       *)
(***************************************************************************)
Labels5 == <<"Enc #", "Type", "Site (deg)", "Top Z (m)", "Bottom Z (m)">>
Labels6 == <<"Enc #", "Type", "Angle (deg)", "Site (deg)", "Top Z (m)", "Bottom Z (m)">>
Labels7 == Labels6 \o <<"Panflex">>

C9_SchemaSelection ==
    (stage = "out" /\ ~table.raised) =>
        LET pf == \E k \in 1..Len(block_in) : block_in[k].kind = "panflex"
            an == \E k \in 1..Len(block_in) : block_in[k].kind = "angles"
        IN  /\ (an /\ pf)  => table.cols = Labels7
            /\ (an /\ ~pf) => table.cols = Labels6
            /\ ~an         => table.cols = Labels5
            /\ \A r \in 1..Len(table.rows) :
                  /\ DOMAIN table.rows[r] = {table.cols[c] : c \in 1..Len(table.cols)}
                  /\ Cardinality(DOMAIN table.rows[r]) = Len(table.cols)

\* a block with both markers has given one row of seven fields
C9_Witness ==
    /\ stage = "out" /\ ~table.raised
    /\ \E k \in 1..Len(block_in) : block_in[k].kind = "panflex"
    /\ \E k \in 1..Len(block_in) : block_in[k].kind = "angles"
    /\ Len(table.rows) = 1
    /\ Cardinality(DOMAIN table.rows[1]) = 7

(***************************************************************************)
(* C10.  For a raw name "<base> [L|R] [index]?", with or without a blank   *)
(* before the index, get_canonical_name returns the base followed by the   *)
(* index if there is one; is_mirror is true iff the orientation letter is  *)
(* R; is_mirror(n) implies get_canonical_name(n) # n; and the two agree on *)
(* which names carry an orientation suffix.                                *)
(***************************************************************************)
\* n is <base>, blanks, the letter at p, blanks, digits
OrientationAt(n, p) ==
    /\ p \in 2..Len(n) /\ n[p] \in {"L", "R"} /\ n[p - 1] = " "
    /\ \E q \in p..Len(n) :
          /\ \A k \in (p + 1)..q : n[k] = " "
          /\ \A k \in (q + 1)..Len(n) : n[k] \in Digits

BaseWithIndex(n, p) ==
    LET index == TakeLast(n, TrailCount(n, Digits))
    IN  RStrip(SubSeq(n, 1, p - 1)) \o (IF index # <<>> THEN <<" ">> \o index ELSE <<>>)

C10_CanonicalAndMirrorAgree ==
    stage = "out" =>
        LET at == {p \in 1..Len(raw_name) : OrientationAt(raw_name, p)}
        IN  /\ \A p \in at : canonical = BaseWithIndex(raw_name, p)
            /\ mirror <=> (\E p \in at : raw_name[p] = "R")
            /\ mirror => canonical # raw_name
            /\ (canonical # raw_name) <=> (at # {})

(***************************************************************************)
(* C11.  The enclosure component of the fingerprint depends only on the    *)
(* multiset of Type labels: two enclosure lists with the same count of     *)
(* every type (so any permutation of the rows, and any change of index or  *)
(* geometry fields) have equal fingerprints, and two lists in which the    *)
(* count of some type differs have different fingerprints.                 *)
(***************************************************************************)
\* the rows of b are the rows of a in the order p
PermutedBy(a, b, p) ==
    /\ Len(a) = Len(b)
    /\ \A k \in 1..Len(a) : b[k] = a[p[k]]

RowOrders(n) == {p \in [1..n -> 1..n] : \A x, y \in 1..n : p[x] = p[y] => x = y}

\* b is a with some index or geometry fields changed, the types kept
SameTypesRowwise(a, b) ==
    /\ Len(a) = Len(b)
    /\ \A k \in 1..Len(a) : a[k]["Type"] = b[k]["Type"]

C11_EnclosureMultisetOnly ==
    (stage = "out" /\ phys_a = phys_b) =>
        /\ (\E p \in RowOrders(Len(encs_a)) : PermutedBy(encs_a, encs_b, p))
              => fp_a = fp_b
        /\ SameTypesRowwise(encs_a, encs_b) => fp_a = fp_b
        /\ (TypeCounts(encs_a) = TypeCounts(encs_b)) <=> (fp_a[2] = fp_b[2])
        /\ (TypeCounts(encs_a) # TypeCounts(encs_b)) => fp_a # fp_b

\* two rows of different types in the opposite order, with another index and
\* another geometry, and the fingerprints have been computed
C11_Witness ==
    /\ stage = "out"
    /\ Len(encs_a) = 2 /\ Len(encs_b) = 2
    /\ encs_a[1]["Type"] # encs_a[2]["Type"]
    /\ encs_b[1]["Type"] = encs_a[2]["Type"] /\ encs_b[2]["Type"] = encs_a[1]["Type"]
    /\ encs_b[1] # encs_a[2] /\ encs_b[2] # encs_a[1]
    /\ fp_a = fp_b

(***************************************************************************)
(* C12.  When parse_document discards a block as a fingerprint duplicate,  *)
(* the result built so far is left unchanged: no group entry is created    *)
(* and no record is added; every record is the one its EARLIEST block      *)
(* gave (canonical name, literal physical values, enclosure rows, column   *)
(* list); and no group of the result has an empty record list.             *)
(***************************************************************************)
\* the resolved group and the fingerprint of each of the first n blocks
GroupsUpTo(n) ==
    [j \in 1..n |-> get_group_for_source(text, source_blocks[j].name)]
FingerprintsUpTo(n) ==
    [j \in 1..n |->
        source_fingerprint(parse_physical_config(source_blocks[j].block),
                           parse_enclosure_table(source_blocks[j].block).rows)]

\* after i blocks each group holds, in order, the records of the blocks among
\* them that were first with their fingerprint in it, and holds at least one
C12_RecordsOfFirstBlocks ==
    pc \in {"scanning", "done"} =>
        \E res \in {GroupsUpTo(i)}, fps \in {FingerprintsUpTo(i)} :
            \A k \in 1..Len(groups) :
                LET surv == Survivors(res, fps, groups[k].name)
                IN  /\ groups[k].records # <<>>
                    /\ groups[k].records =
                          [n \in 1..Cardinality(surv) |-> EntryOf(Nth(surv, n))]

\* the loop takes a block, does not raise, and a record already filed under
\* the group of the block has the fingerprint of the block
C12_DiscardStep ==
    /\ pc = "scanning" /\ i' = i + 1 /\ pc' # "raised"
    /\ \E n \in 1..Len(Filed(group')) :
          source_fingerprint(Filed(group')[n].physical, Filed(group')[n].enclosures) = fp'

C12_DuplicateLeavesResult ==
    /\ []C12_RecordsOfFirstBlocks
    /\ [][C12_DiscardStep => groups' = groups]_vars

\* the block just taken was discarded: a record of its group has its
\* fingerprint but other literal physical values (the mirrored position), and
\* no record of the group has the values of the block
C12_Witness ==
    /\ pc \in {"scanning", "done"} /\ i >= 2
    /\ TotalRecords < i
    /\ \E physical \in {parse_physical_config(source_blocks[i].block)} :
          /\ \E n \in 1..Len(Filed(group)) :
                /\ source_fingerprint(Filed(group)[n].physical,
                                      Filed(group)[n].enclosures) = fp
                /\ Filed(group)[n].physical # physical
          /\ \A n \in 1..Len(Filed(group)) : Filed(group)[n].physical # physical

====
